---- MODULE Spec2Model ----
(***************************************************************************)
(* Model of bnf's Expression (src/src/expression.rs): an ordered Vec of    *)
(* Terms with new / from_parts / add_term / remove_term / terms_iter,      *)
(* Display (to_string) and from_str.                                       *)
(*                                                                         *)
(* Strings are sequences of one-character strings, so that rendering and   *)
(* parsing are computed character by character.                            *)
(*                                                                         *)
(* term.rs, parsers.rs and error.rs are not part of the sources at hand:   *)
(* Term's rendering, the expression parser and the error conversion are    *)
(* modelled from the specification (sections 4.1, 4.2, 4.5, 6, 7).  Where  *)
(* the specification leaves a parser decision open, the decision is a      *)
(* parameter (ParserOptions) that the parsing actions choose freely.       *)
(***************************************************************************)
EXTENDS Integers, Sequences, FiniteSets

VARIABLES expr, ret, prev, hist, pending

vars == <<expr, ret, prev, hist, pending>>

----------------------------------------------------------------------------
(* Bounds *)

MaxTerms == 3

MaxParseTerms == 2

MaxNameLen == 1

MaxInputLen == 4

----------------------------------------------------------------------------
(* Terms *)

Terminal(n) == [kind |-> "Terminal", name |-> n]

Nonterminal(n) == [kind |-> "Nonterminal", name |-> n]

\* Terms used by the container operations: two kinds, two names, so that
\* equal names of different kinds and equal kinds of different names occur.
SampleTerms ==
    { Terminal(<<"A">>), Terminal(<<"Z">>), Nonterminal(<<"A">>) }

\* Characters a Term's name may be built from when it is rendered and parsed
\* back; it holds the closing delimiters and the separator on purpose.
NameAlphabet == {"a", ">", "\"", " "}

Strings(alphabet, maxLen) ==
    UNION { [1..n -> alphabet] : n \in 0..maxLen }

Names == Strings(NameAlphabet, MaxNameLen) \ { <<>> }

ArbitraryTerms ==
    { Terminal(n) : n \in Names } \cup { Nonterminal(n) : n \in Names }

\* derive(PartialEq) on Term: variant and string both match
term_eq(a, b) == a.kind = b.kind /\ a.name = b.name

\* Term's canonical form: Terminal quoted, Nonterminal angle-bracketed
term_to_string(t) ==
    IF t.kind = "Terminal"
    THEN <<"\"">> \o t.name \o <<"\"">>
    ELSE <<"<">> \o t.name \o <<">">>

----------------------------------------------------------------------------
(* Expression *)

Expression(v) == [terms |-> v]

new == Expression(<<>>)

from_parts(v) == Expression(v)

\* derive(PartialEq) on Expression: Vec equality, element by element
expression_eq(e1, e2) ==
    /\ Len(e1.terms) = Len(e2.terms)
    /\ \A i \in 1..Len(e1.terms) : term_eq(e1.terms[i], e2.terms[i])

add_term_front(e, t) == Expression(<<t>> \o e.terms)

add_term_unique(e, t) ==
    IF \E i \in 1..Len(e.terms) : term_eq(e.terms[i], t)
    THEN e
    ELSE Expression(Append(e.terms, t))

\* self.terms.push(term)
add_term(e, t) == Expression(Append(e.terms, t))

\* self.terms.iter().position(|x| *x == *term): 0 stands for None
RECURSIVE position_from(_, _, _)
position_from(v, t, i) ==
    IF i > Len(v) THEN 0
    ELSE IF term_eq(v[i], t) THEN i
    ELSE position_from(v, t, i + 1)

position(v, t) == position_from(v, t, 1)

\* Vec::remove(pos): the element leaves, the later ones shift left
vec_remove(v, pos) ==
    [i \in 1..(Len(v) - 1) |-> IF i < pos THEN v[i] ELSE v[i + 1]]

None == [some |-> FALSE]

Some(x) == [some |-> TRUE, val |-> x]

RECURSIVE last_position_from(_, _, _)
last_position_from(v, t, i) ==
    IF i < 1 THEN 0
    ELSE IF term_eq(v[i], t) THEN i
    ELSE last_position_from(v, t, i - 1)

remove_term_last(e, t) ==
    LET pos == last_position_from(e.terms, t, Len(e.terms))
    IN  IF pos # 0
        THEN [self |-> Expression(vec_remove(e.terms, pos)),
              out |-> Some(e.terms[pos])]
        ELSE [self |-> e, out |-> None]

remove_term_peek(e, t) ==
    LET pos == position(e.terms, t)
    IN  IF pos # 0
        THEN [self |-> e, out |-> Some(e.terms[pos])]
        ELSE [self |-> e, out |-> None]

remove_term_pop(e, t) ==
    LET pos == position(e.terms, t)
    IN  IF pos # 0
        THEN [self |-> Expression(vec_remove(e.terms, pos)),
              out |-> Some(e.terms[pos])]
        ELSE IF Len(e.terms) > 0
        THEN [self |-> Expression(vec_remove(e.terms, Len(e.terms))),
              out |-> None]
        ELSE [self |-> e, out |-> None]

\* remove_term: the Expression afterwards (self) and the returned Option
remove_term(e, t) ==
    LET pos == position(e.terms, t)
    IN  IF pos # 0
        THEN [self |-> Expression(vec_remove(e.terms, pos)),
              out |-> Some(e.terms[pos])]
        ELSE [self |-> e, out |-> None]

\* terms_iter: the Terms in traversal order
terms_iter(e) == e.terms

----------------------------------------------------------------------------
(* Rendering *)

RECURSIVE join(_, _)
join(strs, sep) ==
    IF strs = <<>> THEN <<>>
    ELSE IF Len(strs) = 1 THEN strs[1]
    ELSE strs[1] \o sep \o join(Tail(strs), sep)

RECURSIVE concat_each(_, _)
concat_each(strs, sep) ==
    IF strs = <<>> THEN <<>>
    ELSE strs[1] \o sep \o concat_each(Tail(strs), sep)

term_strings(e) == [i \in 1..Len(e.terms) |-> term_to_string(e.terms[i])]

Display_trailing(e) == concat_each(term_strings(e), <<" ">>)

Display_concat(e) == join(term_strings(e), <<>>)

\* impl fmt::Display: terms.iter().map(to_string).collect().join(" ")
Display(e) == join(term_strings(e), <<" ">>)

to_string(e) == Display(e)

----------------------------------------------------------------------------
(* Parsing *)

WhitespaceChars == {" ", "\t"}

\* Decisions the specification leaves open: whether two Terms may touch,
\* how a quote that is never closed is classified when it is the first
\* thing in the input, and whether an empty name between delimiters parses.
ParserOptions ==
    [wsRequired : BOOLEAN,
     openQuote  : {"Incomplete", "Error"},
     emptyName  : BOOLEAN]

\* index of the first c in s at or after from; 0 when there is none
RECURSIVE find_char(_, _, _)
find_char(s, c, from) ==
    IF from > Len(s) THEN 0
    ELSE IF s[from] = c THEN from
    ELSE find_char(s, c, from + 1)

RECURSIVE skip_ws(_, _)
skip_ws(s, i) ==
    IF i <= Len(s) /\ s[i] \in WhitespaceChars THEN skip_ws(s, i + 1) ELSE i

ParseOk(v, next) == [ok |-> TRUE, val |-> v, next |-> next]

ParseErr(kind) == [ok |-> FALSE, err |-> kind]

\* one Term starting at index i: <name> or "literal"
term(s, i, opt) ==
    IF i > Len(s) THEN ParseErr("Incomplete")
    ELSE IF s[i] = "<" THEN
        LET j == find_char(s, ">", i + 1)
        IN  IF j = 0 THEN ParseErr("Error")
            ELSE IF j = i + 1 /\ ~opt.emptyName THEN ParseErr("Error")
            ELSE ParseOk(Nonterminal(SubSeq(s, i + 1, j - 1)), j + 1)
    ELSE IF s[i] = "\"" THEN
        LET j == find_char(s, "\"", i + 1)
        IN  IF j = 0 THEN ParseErr(opt.openQuote)
            ELSE IF j = i + 1 /\ ~opt.emptyName THEN ParseErr("Error")
            ELSE ParseOk(Terminal(SubSeq(s, i + 1, j - 1)), j + 1)
    ELSE ParseErr("Error")

\* the Terms after the first: each after whitespace, until one does not parse
RECURSIVE more_terms(_, _, _, _)
more_terms(s, i, acc, opt) ==
    LET k == skip_ws(s, i)
        t == term(s, k, opt)
    IN  IF (k > i \/ ~opt.wsRequired) /\ k <= Len(s) /\ t.ok
        THEN more_terms(s, t.next, Append(acc, t.val), opt)
        ELSE ParseOk(from_parts(acc), i)

\* one or more Terms; stops before the first thing that is not a Term
expression(s, opt) ==
    LET t == term(s, 1, opt)
    IN  IF ~t.ok THEN t
        ELSE more_terms(s, t.next, <<t.val>>, opt)

\* an Expression and then nothing but whitespace up to the end of input
expression_complete(s, opt) ==
    LET e == expression(s, opt)
    IN  IF ~e.ok THEN e
        ELSE IF skip_ws(s, e.next) > Len(s) THEN ParseOk(e.val, Len(s) + 1)
        ELSE ParseErr("Error")

\* Error::from: the parser's Incomplete is ParseIncomplete, the rest ParseError
ErrorFrom(kind) ==
    IF kind = "Incomplete" THEN "ParseIncomplete" ELSE "ParseError"

Ok(v) == [ok |-> TRUE, val |-> v]

Err(e) == [ok |-> FALSE, err |-> e]

from_str_prefix(s, opt) ==
    LET r == expression(s, opt)
    IN  IF r.ok THEN Ok(r.val) ELSE Err(ErrorFrom(r.err))

from_str_flat(s, opt) ==
    LET r == expression_complete(s, opt)
    IN  IF r.ok THEN Ok(r.val) ELSE Err("ParseError")

from_str_default(s, opt) ==
    LET r == expression_complete(s, opt)
    IN  IF r.ok THEN Ok(r.val) ELSE Ok(new)

\* Expression::from_str
from_str(s, opt) ==
    LET r == expression_complete(s, opt)
    IN  IF r.ok THEN Ok(r.val) ELSE Err(ErrorFrom(r.err))

\* tests::prop_to_string_and_back: the parse of the rendering
prop_to_string_and_back(e, opt) == from_str(to_string(e), opt)

----------------------------------------------------------------------------
(* State machine *)

\* expr: the Expression the caller holds
\* ret:  the last call: its name, argument, the Expression before, its result
\* prev: the call before the last when that was add_term, else NoCall
\* hist: the Terms appended since the last new(), while only add_term ran
\* pending: the argument of a parsing call that has not been made yet

NoCall == [op |-> "none"]

NoInput == [kind |-> "none"]

Call(op, arg, before, out) ==
    [op |-> op, arg |-> arg, before |-> before, out |-> out]

Remember == IF ret.op = "add_term" THEN ret ELSE NoCall

Impure == [pure |-> FALSE, added |-> <<>>]

BaseDna == <<"<", "b", "a", "s", "e", ">", " ", "<", "d", "n", "a", ">">>

BaseDnaOpen == SubSeq(BaseDna, 1, Len(BaseDna) - 1)

BaseDnaExpression ==
    from_parts(<<Nonterminal(<<"b", "a", "s", "e">>),
                 Nonterminal(<<"d", "n", "a">>)>>)

InputAlphabet == {"<", ">", "\"", " ", "a"}

Inputs == Strings(InputAlphabet, MaxInputLen) \cup {BaseDna, BaseDnaOpen}

\* impl Arbitrary for Expression: at least one Term
ArbitraryExpressions ==
    { from_parts(v) :
        v \in Strings(ArbitraryTerms, MaxParseTerms) \ { <<>> } }
    \cup {BaseDnaExpression}

Init ==
    /\ expr = new
    /\ ret = NoCall
    /\ prev = NoCall
    /\ hist = [pure |-> TRUE, added |-> <<>>]
    /\ pending = NoInput

New ==
    /\ expr' = new
    /\ ret' = Call("new", <<>>, expr, new)
    /\ prev' = Remember
    /\ hist' = [pure |-> TRUE, added |-> <<>>]
    /\ UNCHANGED pending

FromParts ==
    \E v \in Strings(SampleTerms, MaxTerms) :
        /\ expr' = from_parts(v)
        /\ ret' = Call("from_parts", v, expr, from_parts(v))
        /\ prev' = Remember
        /\ hist' = Impure
        /\ UNCHANGED pending

AddTerm ==
    \E t \in SampleTerms :
        /\ Len(expr.terms) < MaxTerms
        /\ expr' = add_term(expr, t)
        /\ ret' = Call("add_term", t, expr, <<>>)
        /\ prev' = Remember
        /\ hist' = IF hist.pure
                   THEN [pure |-> TRUE, added |-> Append(hist.added, t)]
                   ELSE Impure
        /\ UNCHANGED pending

RemoveTerm ==
    \E t \in SampleTerms :
        LET r == remove_term(expr, t)
        IN  /\ expr' = r.self
            /\ ret' = Call("remove_term", t, expr, r.out)
            /\ prev' = Remember
            /\ hist' = Impure
            /\ UNCHANGED pending

TermsIter ==
    /\ ret' = Call("terms_iter", <<>>, expr, terms_iter(expr))
    /\ prev' = Remember
    /\ UNCHANGED <<expr, hist, pending>>

ToString ==
    /\ ret' = Call("to_string", <<>>, expr, to_string(expr))
    /\ prev' = Remember
    /\ UNCHANGED <<expr, hist, pending>>

Next == New \/ FromParts \/ AddTerm \/ RemoveTerm \/ TermsIter \/ ToString

Spec == Init /\ [][Next]_vars

\* The parsing calls are functions of their argument alone: the argument
\* and the parser's open decisions are drawn first, and one call is made.
InitParse ==
    /\ expr = new
    /\ ret = NoCall
    /\ prev = NoCall
    /\ hist = [pure |-> TRUE, added |-> <<>>]
    /\ \E opt \in ParserOptions :
          \/ \E s \in Inputs :
                pending = [kind |-> "str", arg |-> s, opt |-> opt]
          \/ \E e \in ArbitraryExpressions :
                pending = [kind |-> "expr", arg |-> e, opt |-> opt]

\* from_str is an associated function: it builds a Result and touches no
\* Expression the caller already holds.
FromStr ==
    /\ ret.op = "none"
    /\ pending.kind = "str"
    /\ ret' = Call("from_str", pending.arg, expr,
                   from_str(pending.arg, pending.opt))
    /\ prev' = Remember
    /\ UNCHANGED <<expr, hist, pending>>

ToStringAndBack ==
    /\ ret.op = "none"
    /\ pending.kind = "expr"
    /\ ret' = Call("prop_to_string_and_back", pending.arg, expr,
                   [text |-> to_string(pending.arg),
                    back |-> prop_to_string_and_back(pending.arg,
                                                     pending.opt)])
    /\ prev' = Remember
    /\ UNCHANGED <<expr, hist, pending>>

NextParse == FromStr \/ ToStringAndBack

SpecParse == InitParse /\ [][NextParse]_vars

----------------------------------------------------------------------------
(* Properties *)

Contains(e, t) == \E i \in 1..Len(e.terms) : term_eq(e.terms[i], t)

Occurrences(e, t) ==
    Cardinality({ i \in 1..Len(e.terms) : term_eq(e.terms[i], t) })

\* a Term whose name is not empty and does not hold the delimiter that closes
\* its own surface form
DelimiterFree(t) ==
    /\ Len(t.name) >= 1
    /\ \A i \in 1..Len(t.name) :
          t.name[i] # (IF t.kind = "Terminal" THEN "\"" ELSE ">")

RoundTrips ==
    /\ ret.out.back.ok
    /\ expression_eq(ret.out.back.val, ret.arg)
    /\ terms_iter(ret.out.back.val) = terms_iter(ret.arg)

BaseDnaScenario ==
    /\ (ret.op = "from_str" /\ ret.arg = BaseDna)
          => /\ ret.out.ok
             /\ terms_iter(ret.out.val) = terms_iter(BaseDnaExpression)
    /\ (ret.op = "prop_to_string_and_back" /\ ret.arg = BaseDnaExpression)
          => ret.out.text = BaseDna

C2_ErrorKinds ==
    /\ (ret.op = "from_str" /\ ret.arg = <<>>)
          => (~ret.out.ok /\ ret.out.err = "ParseIncomplete")
    /\ (ret.op = "from_str" /\ ret.arg = BaseDnaOpen)
          => (~ret.out.ok /\ ret.out.err = "ParseError")

C2_Witness ==
    /\ ret.op = "from_str"
    /\ ret.arg = BaseDnaOpen
    /\ ~ret.out.ok

\* C3: remove_term(t) on an Expression holding no Term equal to t returns
\* None and leaves the Expression as it was: same count, Terms and order.
C3_RemoveAbsent ==
    (ret.op = "remove_term" /\ ~Contains(ret.before, ret.arg))
       => /\ ~ret.out.some
          /\ Len(terms_iter(expr)) = Len(terms_iter(ret.before))
          /\ terms_iter(expr) = terms_iter(ret.before)

C3_Witness ==
    /\ ret.op = "remove_term"
    /\ ~Contains(ret.before, ret.arg)
    /\ Len(ret.before.terms) >= 2
    /\ \E i \in 1..Len(ret.before.terms) :
          ret.before.terms[i].name = ret.arg.name
    /\ ~ret.out.some

\* C4: remove_term(t) on an Expression holding t returns Some(t), removes
\* the lowest-index occurrence only, makes the count one less, keeps the
\* other Terms in order, and when t occurred once t is gone afterwards.
C4_RemovePresent ==
    (ret.op = "remove_term" /\ Contains(ret.before, ret.arg))
       => LET v == terms_iter(ret.before)
              t == ret.arg
          IN  /\ ret.out.some
              /\ ret.out.val = t
              /\ Len(terms_iter(expr)) = Len(v) - 1
              /\ \E i \in 1..Len(v) :
                    /\ v[i] = t
                    /\ \A j \in 1..(i - 1) : v[j] # t
                    /\ terms_iter(expr) =
                          SubSeq(v, 1, i - 1) \o SubSeq(v, i + 1, Len(v))
              /\ Occurrences(expr, t) = Occurrences(ret.before, t) - 1
              /\ Occurrences(ret.before, t) = 1 => ~Contains(expr, t)

C4_Witness ==
    /\ ret.op = "remove_term"
    /\ Len(ret.before.terms) = 3
    /\ ret.before.terms[1] = ret.arg
    /\ ret.before.terms[2] # ret.arg
    /\ ret.before.terms[3] = ret.arg
    /\ ret.out.some

\* the leading Expression of the input parses and something other than
\* whitespace is left after it
TrailingInput(s, opt) ==
    LET e == expression(s, opt)
    IN  /\ e.ok
        /\ \E i \in e.next..Len(s) : s[i] \notin WhitespaceChars

\* C5: from_str fails when a leading Expression parses but input other than
\* whitespace is left over, and the failure is ParseError, never
\* ParseIncomplete.
C5_TrailingInputMalformed ==
    (ret.op = "from_str" /\ TrailingInput(ret.arg, pending.opt))
       => (~ret.out.ok /\ ret.out.err = "ParseError")

C5_Witness ==
    /\ ret.op = "from_str"
    /\ TrailingInput(ret.arg, pending.opt)
    /\ ret.arg[Len(ret.arg)] = "a"
    /\ ~ret.out.ok

\* C6: every Expression from_str returns as Ok has at least one Term.
C6_ParsedNonEmpty ==
    (ret.op = "from_str" /\ ret.out.ok)
       => /\ Len(terms_iter(ret.out.val)) >= 1
          /\ ~expression_eq(ret.out.val, new)
          /\ ~expression_eq(ret.out.val, from_parts(<<>>))

C6_Witness ==
    /\ ret.op = "from_str"
    /\ ret.out.ok
    /\ Len(terms_iter(ret.out.val)) = 2

\* new() followed by add_term on each element of v, in order
RECURSIVE built_by_adding(_, _)
built_by_adding(e, v) ==
    IF v = <<>> THEN e
    ELSE built_by_adding(add_term(e, v[1]), Tail(v))

Reorderings(v) ==
    { w \in [1..Len(v) -> { v[i] : i \in 1..Len(v) }] :
        /\ w # v
        /\ \A t \in { v[i] : i \in 1..Len(v) } :
              Occurrences(from_parts(w), t) = Occurrences(from_parts(v), t) }

\* C7: from_parts(v) equals new() followed by add_term of each element of v
\* in order, and does not equal an Expression of the same Terms in another
\* order.
C7_FromPartsIsNewThenAdd ==
    /\ ret.op = "from_parts"
          => /\ expression_eq(expr, built_by_adding(new, ret.arg))
             /\ \A w \in Reorderings(ret.arg) :
                   ~expression_eq(expr, built_by_adding(new, w))
    /\ hist.pure
          => /\ expression_eq(expr, from_parts(hist.added))
             /\ \A w \in Reorderings(hist.added) :
                   ~expression_eq(expr, from_parts(w))

C7_Witness ==
    /\ hist.pure
    /\ Len(hist.added) = 3
    /\ hist.added[1] # hist.added[2]
    /\ hist.added[1] = hist.added[3]
    /\ ret.op = "add_term"

\* C8: add_term(t) appends even when an equal Term is present, makes the
\* count one more, puts t last, and keeps the Terms already present as
\* they were and in their order.
C8_AddAppends ==
    ret.op = "add_term"
       => LET v == terms_iter(ret.before)
              w == terms_iter(expr)
          IN  /\ Len(w) = Len(v) + 1
              /\ w[Len(w)] = ret.arg
              /\ \A i \in 1..Len(v) : w[i] = v[i]
              /\ Occurrences(expr, ret.arg)
                    = Occurrences(ret.before, ret.arg) + 1

C8_Witness ==
    /\ ret.op = "add_term"
    /\ Contains(ret.before, ret.arg)
    /\ Len(terms_iter(expr)) = Len(terms_iter(ret.before)) + 1

\* where the i-th Term's form starts in the rendering, counting from 0
RECURSIVE form_offset(_, _)
form_offset(v, i) ==
    IF i = 1 THEN 0
    ELSE form_offset(v, i - 1) + Len(term_to_string(v[i - 1])) + 1

\* C9: to_string is the Terms' forms in traversal order with exactly one
\* space between neighbours and none before the first or after the last;
\* no Terms render as the empty string, one Term as its form alone.
C9_RenderingJoinsWithOneSpace ==
    ret.op = "to_string"
       => LET v == terms_iter(ret.before)
              n == Len(v)
              s == ret.out
          IN  /\ n = 0 => s = <<>>
              /\ n = 1 => s = term_to_string(v[1])
              /\ n >= 1 =>
                    Len(s) = form_offset(v, n) + Len(term_to_string(v[n]))
              /\ \A i \in 1..n :
                    SubSeq(s, form_offset(v, i) + 1,
                           form_offset(v, i) + Len(term_to_string(v[i])))
                       = term_to_string(v[i])
              /\ \A i \in 2..n : s[form_offset(v, i)] = " "

C9_Witness ==
    /\ ret.op = "to_string"
    /\ Len(terms_iter(ret.before)) = 3
    /\ ret.before.terms[1].kind # ret.before.terms[2].kind
    /\ Len(ret.out) = 11

\* C10: when E holds no Term equal to t, add_term(t) and then
\* remove_term(t) returns Some(t) and leaves E as it was before the two.
C10_AddThenRemoveRestores ==
    (/\ ret.op = "remove_term"
     /\ prev.op = "add_term"
     /\ prev.arg = ret.arg
     /\ ~Contains(prev.before, prev.arg))
       => /\ ret.out.some
          /\ ret.out.val = ret.arg
          /\ expression_eq(expr, prev.before)
          /\ terms_iter(expr) = terms_iter(prev.before)

C10_Witness ==
    /\ ret.op = "remove_term"
    /\ prev.op = "add_term"
    /\ prev.arg = ret.arg
    /\ ~Contains(prev.before, prev.arg)
    /\ Len(prev.before.terms) = 2
    /\ ret.out.some

====
